---- MODULE Spec2Model ----
(***************************************************************************)
(* flatcode: the rule-based path filter (is_path_ignored), the pruning     *)
(* directory walker (ProjectScanner.scan) and the command-line driver      *)
(* (main).  Paths, patterns and file names are strings; a Path is its      *)
(* POSIX string relative to the scan root, the root itself being "".       *)
(***************************************************************************)
EXTENDS Integers, Sequences, FiniteSets, TLC

(***************************************************************************)
(* String helpers: Python's str operations used by the code.               *)
(***************************************************************************)

\* s[i-1] in Python terms: the i-th character (1-based) as a one-character string.
Char(s, i) == SubSeq(s, i, i)

\* s[k:] : the string without its first k characters.
Drop(s, k) == SubSeq(s, k + 1, Len(s))

\* str.startswith
startswith(s, prefix) ==
    /\ Len(prefix) <= Len(s)
    /\ SubSeq(s, 1, Len(prefix)) = prefix

\* str.endswith
endswith(s, suffix) ==
    /\ Len(suffix) <= Len(s)
    /\ SubSeq(s, Len(s) - Len(suffix) + 1, Len(s)) = suffix

\* c in s, for a one-character string c
InStr(c, s) == \E i \in 1..Len(s) : Char(s, i) = c

\* str.rfind(c): the largest 1-based index of c in s, 0 when absent.
RECURSIVE rfind(_, _)
rfind(s, c) ==
    IF s = "" THEN 0
    ELSE IF Char(s, Len(s)) = c THEN Len(s)
    ELSE rfind(SubSeq(s, 1, Len(s) - 1), c)

\* PurePath.name: the final path segment.
PathName(p) == Drop(p, rfind(p, "/"))

\* PurePath.parent, as a relative POSIX string ("" for a top-level entry).
PathParent(p) ==
    LET i == rfind(p, "/") IN IF i = 0 THEN "" ELSE SubSeq(p, 1, i - 1)

\* PurePath.suffix: the last dot of the name and what follows it, "" when the
\* name has no dot, starts with its only dot or ends with a dot.
PathSuffix(p) ==
    LET nm == PathName(p)
        i  == rfind(nm, ".")
    IN  IF 1 < i /\ i < Len(nm) THEN Drop(nm, i - 1) ELSE ""

\* root_path / d, relative to the scan root.
PathJoin(dir, nm) == IF dir = "" THEN nm ELSE dir \o "/" \o nm

(***************************************************************************)
(* fnmatch.fnmatch on POSIX (normcase is the identity): '*' matches any    *)
(* run of characters, '/' included; '?' matches one character; '[seq]'     *)
(* and '[!seq]' match one character in / not in seq; a '[' with no closing *)
(* ']' is a literal; every other character matches itself.  The whole name *)
(* must match.  Ranges (a-z) are outside the alphabets used here.          *)
(***************************************************************************)
RECURSIVE FindClose(_, _)
FindClose(pat, j) ==
    IF j > Len(pat) THEN j
    ELSE IF Char(pat, j) = "]" THEN j
    ELSE FindClose(pat, j + 1)

\* With the '[' at position i - 1: the position of the ']' that closes the
\* class, or Len(pat) + 1 when there is none.  A leading '!' and a ']' right
\* after it are part of the class.
ClassClose(pat, i) ==
    LET j1 == IF i <= Len(pat) /\ Char(pat, i) = "!" THEN i + 1 ELSE i
        j2 == IF j1 <= Len(pat) /\ Char(pat, j1) = "]" THEN j1 + 1 ELSE j1
    IN  FindClose(pat, j2)

RECURSIVE fnmatch(_, _)
fnmatch(name, pat) ==
    IF pat = "" THEN name = ""
    ELSE
      LET c    == Char(pat, 1)
          rest == Drop(pat, 1)
      IN  CASE c = "*" ->
                 \/ fnmatch(name, rest)
                 \/ (name # "" /\ fnmatch(Drop(name, 1), pat))
            [] c = "?" ->
                 name # "" /\ fnmatch(Drop(name, 1), rest)
            [] c = "[" ->
                 LET j == ClassClose(pat, 2) IN
                 IF j > Len(pat)
                 THEN /\ name # ""
                      /\ Char(name, 1) = "["
                      /\ fnmatch(Drop(name, 1), rest)
                 ELSE LET stuff   == SubSeq(pat, 2, j - 1)
                          negated == Char(stuff, 1) = "!"
                          members == IF negated THEN Drop(stuff, 1) ELSE stuff
                      IN  /\ name # ""
                          /\ InStr(Char(name, 1), members) # negated
                          /\ fnmatch(Drop(name, 1), Drop(pat, j))
            [] OTHER ->
                 /\ name # ""
                 /\ Char(name, 1) = c
                 /\ fnmatch(Drop(name, 1), rest)

(***************************************************************************)
(* The rule matcher.  A rule is the pair (pattern, is_inclusion).          *)
(***************************************************************************)

\* dir_rule_match with the pattern's trailing slash dropped before the
\* comparison.
dir_rule_match_unslashed(candidate, pattern) ==
    startswith(candidate, SubSeq(pattern, 1, Len(pattern) - 1))

\* A directory rule (the pattern ends with '/'): the candidate starts with it.
dir_rule_match(candidate, pattern) == startswith(candidate, pattern)

\* glob_rule_match without the comparison of the name alone.
glob_rule_match_full_path_only(rel_path_posix, pattern) ==
    fnmatch(rel_path_posix, pattern)

\* A glob rule: the glob matches the whole relative path or the name alone.
glob_rule_match(rel_path_posix, pattern) ==
    \/ fnmatch(rel_path_posix, pattern)
    \/ fnmatch(PathName(rel_path_posix), pattern)

\* Whether one rule matches.  dir_candidate is the string a directory rule is
\* compared with, rel_path_posix the one a glob rule is compared with.
rule_matches(dir_candidate, rel_path_posix, pattern) ==
    IF endswith(pattern, "/")
    THEN dir_rule_match(dir_candidate, pattern)
    ELSE glob_rule_match(rel_path_posix, pattern)

\* rule_loop leaving the loop at the first rule that matches.
RECURSIVE rule_loop_first_match(_, _, _, _, _)
rule_loop_first_match(dir_candidate, rel_path_posix, rules, i, ignored) ==
    IF i > Len(rules) THEN ignored
    ELSE IF rule_matches(dir_candidate, rel_path_posix, rules[i].pattern)
         THEN ~rules[i].is_inclusion
         ELSE rule_loop_first_match(dir_candidate, rel_path_posix, rules, i + 1, ignored)

\* The loop over the rules, from rule i on, with the verdict so far.
RECURSIVE rule_loop(_, _, _, _, _)
rule_loop(dir_candidate, rel_path_posix, rules, i, ignored) ==
    IF i > Len(rules) THEN ignored
    ELSE rule_loop(dir_candidate, rel_path_posix, rules, i + 1,
                   IF rule_matches(dir_candidate, rel_path_posix, rules[i].pattern)
                   THEN ~rules[i].is_inclusion
                   ELSE ignored)

\* flatcode.cli.is_path_ignored(rel_path, rules): both kinds of rule are
\* compared with rel_path.as_posix().
cli_is_path_ignored(rel_path, rules) ==
    rule_loop(rel_path, rel_path, rules, 1, FALSE)

\* flatcode.core.ignore.is_path_ignored(rel_path, rules, is_directory), the
\* matcher ProjectScanner calls: a directory candidate gets a trailing slash
\* before it is compared with a directory rule.
is_path_ignored(rel_path, rules, is_directory) ==
    rule_loop(IF is_directory THEN rel_path \o "/" ELSE rel_path,
              rel_path, rules, 1, FALSE)

(***************************************************************************)
(* The file system the scan reads.  A tree is [file, dirs, unlistable]:    *)
(* file maps the relative path of every non-directory entry to what        *)
(* reading it gives, dirs is the set of relative paths of the directories  *)
(* below the root, unlistable the directories (the root is "") whose       *)
(* listing raises OSError.  A file is [first_nul, utf8, access, text]:     *)
(* the 0-based offset of its first NUL byte (-1: none), whether its bytes  *)
(* decode as UTF-8, whether opening it works ("ok"), always fails          *)
(* ("denied") or works for the sniff and fails for the full read           *)
(* ("vanishes"), and its decoded text.                                     *)
(***************************************************************************)
TextFile(text) == [first_nul |-> -1, utf8 |-> TRUE, access |-> "ok", text |-> text]

ChildDirs(tree, dir) == {PathName(d) : d \in {e \in tree.dirs : PathParent(e) = dir}}

ChildFiles(tree, dir) ==
    {PathName(f) : f \in {e \in DOMAIN tree.file : PathParent(e) = dir}}

\* The proper ancestors of a relative path below the root: "a/b/c" -> {"a", "a/b"}.
RECURSIVE Ancestors(_)
Ancestors(p) ==
    LET d == PathParent(p) IN IF d = "" THEN {} ELSE {d} \cup Ancestors(d)

\* Whether p is the directory dir or an entry below it.
Below(p, dir) == p = dir \/ dir \in Ancestors(p)

\* f.read(1024) in _is_binary_file
SniffBytes == 1024

\* nul_in_chunk looking for the NUL in the whole file.
nul_in_whole_file(file) == file.first_nul >= 0

\* b'\0' in chunk, for the chunk f.read(SniffBytes)
nul_in_chunk(file) == file.first_nul >= 0 /\ file.first_nul < SniffBytes

\* _is_binary_file without the look at the chunk.
is_binary_file_unsniffed(file) == file.access = "denied"

\* ProjectScanner._is_binary_file(path): True when the open or the read
\* raises, else whether the first SniffBytes bytes hold a NUL.
is_binary_file(file) ==
    IF file.access = "denied" THEN TRUE ELSE nul_in_chunk(file)

\* The extension gate without match_all.
extension_ok_no_match_all(rel_path, exts) ==
    \/ PathSuffix(rel_path) \in exts
    \/ PathName(rel_path) \in exts

\* The extension gate of scan (B): match_all, or the suffix or the name is in
\* the extension set.
extension_ok(rel_path, exts) ==
    \/ "*" \in exts
    \/ PathSuffix(rel_path) \in exts
    \/ PathName(rel_path) \in exts

\* A loop that sniffs every file it visits, before the rule and extension checks.
reaches_sniff_unchecked(rel_path, rules, exts) == TRUE

\* The loop body gets to the sniff of a file: the file is not ignored (A)
\* and the extension gate lets it through (B).
reaches_sniff(rel_path, rules, exts) ==
    /\ ~is_path_ignored(rel_path, rules, FALSE)
    /\ extension_ok(rel_path, exts)

\* dirs left as os.walk listed it.
pruned_dirs_none_removed(root_path, dir_names, rules) == dir_names

\* The directories scan keeps in dirs: those not ignored as a directory.
pruned_dirs(root_path, dir_names, rules) ==
    {d \in dir_names : ~is_path_ignored(PathJoin(root_path, d), rules, TRUE)}

(***************************************************************************)
(* The rule file and main.  A text file on disk is [exists, lines], lines  *)
(* being its lines without their line ends.                                *)
(***************************************************************************)
NoFile == [exists |-> FALSE, lines |-> <<>>]

FileOf(lines) == [exists |-> TRUE, lines |-> lines]

Rule(pattern, is_inclusion) ==
    [pattern |-> pattern, is_inclusion |-> is_inclusion]

\* The members of a sequence.
Range(seq) == {seq[i] : i \in 1..Len(seq)}

\* The white space str.strip removes, of the characters used here.
IsSpace(c) == c = " " \/ c = "\t"

RECURSIVE lstrip(_)
lstrip(s) ==
    IF s # "" /\ IsSpace(Char(s, 1)) THEN lstrip(Drop(s, 1)) ELSE s

RECURSIVE rstrip(_)
rstrip(s) ==
    IF s # "" /\ IsSpace(Char(s, Len(s))) THEN rstrip(SubSeq(s, 1, Len(s) - 1)) ELSE s

\* str.strip
strip(s) == rstrip(lstrip(s))

\* The loop body without the test for "!": every kept line is an exclusion.
rules_of_line_no_inclusion(raw_line) ==
    LET line == strip(raw_line) IN
    IF line = "" \/ startswith(line, "#") THEN <<>>
    ELSE <<Rule(line, FALSE)>>

\* The body of the loop of load_ignore_rules: the rules one line adds.
rules_of_line(raw_line) ==
    LET line == strip(raw_line) IN
    IF line = "" \/ startswith(line, "#") THEN <<>>
    ELSE IF startswith(line, "!") THEN <<Rule(strip(Drop(line, 1)), TRUE)>>
    ELSE <<Rule(strip(line), FALSE)>>

RECURSIVE rules_of_lines(_)
rules_of_lines(lines) ==
    IF lines = <<>> THEN <<>>
    ELSE rules_of_line(Head(lines)) \o rules_of_lines(Tail(lines))

\* flatcode.cli.load_ignore_rules(mergeignore_file)
load_ignore_rules(file) ==
    IF ~file.exists THEN <<>> ELSE rules_of_lines(file.lines)

\* flatcode.cli.DEFAULT_IGNORE_PATTERNS
DEFAULT_IGNORE_PATTERNS ==
    <<"# Default ignore patterns", ".git/", "node_modules/", "venv/", ".venv/",
      "__pycache__/", "dist/", "build/", ".vscode/", ".idea/", ".DS_Store",
      "*.log", "logs/">>

\* flatcode.cli.bootstrap_mergeignore: the .mergeignore file it leaves.  An
\* existing file is kept as it is; a new one gets the lines of .gitignore
\* when there is one and the user does not answer "n", else the default
\* patterns, and, unless one of these lines is the output filename, a blank
\* line, a comment and the output filename.
bootstrap_mergeignore(existing, git_file, answer, output_filename) ==
    IF existing.exists THEN existing
    ELSE LET copied == IF git_file.exists /\ answer # "n" THEN git_file.lines ELSE <<>>
             patterns_to_write == IF copied = <<>> THEN DEFAULT_IGNORE_PATTERNS ELSE copied
         IN  FileOf(IF output_filename \in Range(patterns_to_write)
                    THEN patterns_to_write
                    ELSE patterns_to_write
                         \o <<"", "# Exclude this tool's output", output_filename>>)

\* flatcode.config.DEFAULT_IGNORE_PATTERNS
config_DEFAULT_IGNORE_PATTERNS == DEFAULT_IGNORE_PATTERNS \o <<"*_context.txt">>

\* One line of a rule file as a gitwildmatch pattern of pathspec, matched
\* against a file directly below the root (file_name holds no '/').  The line
\* is stripped; a blank line and a comment are no pattern; '!' is taken off;
\* one leading '/' anchors the pattern at the root and is taken off; a
\* pattern with a '/' left in it (in the middle or at the end) needs a path
\* of several segments and does not match; else the pattern is a glob on the
\* name.  Patterns with a backslash, '**' or '[^' are outside this model.
gitwildmatch_matches(line, file_name) ==
    LET pattern  == strip(line)
        body     == IF startswith(pattern, "!") THEN Drop(pattern, 1) ELSE pattern
        anchored == IF startswith(body, "/") THEN Drop(body, 1) ELSE body
    IN  /\ pattern # ""
        /\ ~startswith(pattern, "#")
        /\ anchored # ""
        /\ ~InStr("/", anchored)
        /\ fnmatch(file_name, anchored)

\* pathspec.PathSpec.from_lines("gitwildmatch", lines).match_file(file_name):
\* the kind of the last pattern that matches, False when none does.
RECURSIVE match_file(_, _)
match_file(lines, file_name) ==
    IF lines = <<>> THEN FALSE
    ELSE LET last == lines[Len(lines)] IN
         IF gitwildmatch_matches(last, file_name)
         THEN ~startswith(strip(last), "!")
         ELSE match_file(SubSeq(lines, 1, Len(lines) - 1), file_name)

\* "\n".join(lines): the text of a file, lines being that text split at
\* every "\n".
RECURSIVE join(_)
join(lines) ==
    IF lines = <<>> THEN ""
    ELSE IF Len(lines) = 1 THEN lines[1]
    ELSE lines[1] \o "\n" \o join(Tail(lines))

\* open(file, "a").write("\n" + more[1] + "\n" + ... ): the lines of the
\* file after the text is appended.
appended(lines, more) == (IF lines = <<>> THEN <<"">> ELSE lines) \o more

\* flatcode.core.ignore.bootstrap_mergeignore: the .mergeignore file it
\* leaves.  A missing file is created as in flatcode.cli, from the defaults
\* of flatcode.config; an existing file whose rules do not match the output
\* filename gets a blank line, a comment and the output filename appended.
core_bootstrap_mergeignore(existing, git_file, answer, output_filename) ==
    IF ~existing.exists
    THEN LET copied == IF git_file.exists /\ answer # "n" THEN git_file.lines ELSE <<>>
             patterns_to_write == IF copied = <<>> THEN config_DEFAULT_IGNORE_PATTERNS
                                  ELSE copied
         IN  FileOf(IF output_filename \in Range(patterns_to_write)
                    THEN patterns_to_write
                    ELSE patterns_to_write
                         \o <<"", "# Exclude this tool's output", output_filename>>)
    ELSE IF ~match_file(existing.lines, output_filename)
         THEN FileOf(appended(existing.lines,
                              <<"# Auto-added output file", output_filename, "">>))
         ELSE existing

\* The rules main scans with: those of the rule file, then the output
\* filename as an exclusion rule.
compiled_rules(file, output_filename) ==
    Append(load_ignore_rules(file), Rule(output_filename, FALSE))

\* What root_dir.rglob("*") finds that is_file(): the files of the tree below
\* directories that can be listed, and .mergeignore, .gitignore and the
\* output file when they exist.
rglob_files(tree, rule_file, git_file, out_file, output_filename) ==
    IF "" \in tree.unlistable THEN [f \in {} |-> TextFile("")]
    ELSE LET walked  == {f \in DOMAIN tree.file :
                            \A a \in Ancestors(f) : a \notin tree.unlistable}
             special == {e \in {[name |-> ".mergeignore", file |-> rule_file],
                                [name |-> ".gitignore", file |-> git_file],
                                [name |-> output_filename, file |-> out_file]} :
                            e.file.exists}
         IN  [f \in walked \cup {e.name : e \in special} |->
                 IF f \in walked THEN tree.file[f] ELSE TextFile("lines of " \o f)]

\* Phase 1 of main: the files that are not ignored, have a listed extension
\* or name, and can be read as UTF-8 text.
scanned_files(found, rules, exts) ==
    {[rel_path |-> f, content |-> found[f].text] :
        f \in {g \in DOMAIN found :
                  /\ ~cli_is_path_ignored(g, rules)
                  /\ (PathSuffix(g) \in exts \/ PathName(g) \in exts)
                  /\ found[g].access = "ok"
                  /\ found[g].utf8}}

(***************************************************************************)
(* Bounds and input sets.                                                  *)
(***************************************************************************)
MaxRules == 3
MaxScanRules == 2

\* All sequences over S of length at most n.
RECURSIVE SeqsUpTo(_, _)
SeqsUpTo(S, n) ==
    IF n = 0 THEN {<<>>}
    ELSE LET shorter == SeqsUpTo(S, n - 1)
         IN  shorter \cup {Append(s, e) : s \in {t \in shorter : Len(t) = n - 1}, e \in S}

MatchPatterns == {"*.log", "app.log", "src/important.log", "venv/", "logs/"}

MatchRules == {Rule(p, b) : p \in MatchPatterns, b \in BOOLEAN}

MatchPaths ==
    {"venv", "venv/lib/python3.9", "venvx/a", "app.log", "src/app.log",
     "deep/dir/app.log", "src/main.py", "src/important.log", "logs",
     "logs/important.log", "README.md"}

\* What a file can be instead of plain text: an image (a NUL inside the
\* sniffed prefix, not UTF-8), UTF-8 text with a NUL inside the sniffed
\* prefix, UTF-8 text with its first NUL right after the prefix, bytes that
\* are not UTF-8, a file that cannot be opened, a file that disappears
\* between the sniff and the full read.
FaultyFiles ==
    {[first_nul |-> 8, utf8 |-> FALSE, access |-> "ok", text |-> ""],
     [first_nul |-> 3, utf8 |-> TRUE, access |-> "ok", text |-> "early nul"],
     [first_nul |-> SniffBytes, utf8 |-> TRUE, access |-> "ok", text |-> "late nul"],
     [first_nul |-> -1, utf8 |-> FALSE, access |-> "ok", text |-> ""],
     [first_nul |-> -1, utf8 |-> TRUE, access |-> "denied", text |-> "secret"],
     [first_nul |-> -1, utf8 |-> TRUE, access |-> "vanishes", text |-> "gone"]}

ScanDirs == {"logs", "node_modules", "node_modules/deep", "node_modules/deep/nested"}

ScanFiles ==
    {"a.py", "a.md", "Dockerfile", "logs/app.log", "logs/important.log",
     "node_modules/deep/nested/index.js"}

\* The files that are something else than plain text in some tree.
FaultSites == {"a.md", "logs/important.log"}

\* The directories that cannot be listed in some tree.
UnlistableSites == {"", "logs", "node_modules/deep"}

BaseTree ==
    [file |-> [f \in ScanFiles |-> TextFile("text of " \o f)],
     dirs |-> ScanDirs,
     unlistable |-> {}]

\* The trees scanned: the base tree, the base tree with one file that is not
\* plain text, the base tree with one directory that cannot be listed.
ScanTrees ==
    {BaseTree}
    \cup {[BaseTree EXCEPT !.file[f] = k] : f \in FaultSites, k \in FaultyFiles}
    \cup {[BaseTree EXCEPT !.unlistable = {d}] : d \in UnlistableSites}

ScanRules ==
    {Rule("logs/", FALSE), Rule("logs/important.log", TRUE),
     Rule("node_modules/", FALSE), Rule("deep", FALSE), Rule("*.log", FALSE)}

ExtensionSets == {{"*"}, {".py"}, {".md", "Dockerfile"}}

RootKinds == {"dir", "missing", "file"}

OutputNames == {"out.md", "o[1].md"}

RuleFiles ==
    {NoFile,
     FileOf(<<>>),
     FileOf(<<"logs/", "!out.md">>),
     FileOf(<<"  *.log", "# keep the snapshots", "", "!o*.md  ">>),
     FileOf(<<"", "    logs/", "    *.png", "    !logs/important.log", "    ">>)}

GitignoreFiles == {NoFile, FileOf(<<"node_modules/", "*.log", "out.md">>)}

Answers == {"", "n"}

OutputFiles == {NoFile, FileOf(<<"# --- flatcode: Project Context Snapshot --- #">>)}

CliExtensionSets == {{".py", ".md", ".js"}, {".log", "Dockerfile"}}

CliTrees ==
    {BaseTree, [BaseTree EXCEPT !.unlistable = {"logs"}]}
    \cup {[BaseTree EXCEPT !.file["a.md"] = k] : k \in FaultyFiles}

MaxLines == 2

\* bootstrap_mergeignore is called again only on a rule file of at most this
\* many lines.
MaxBootLines == 20

BootOutputNames == {"out.md", "merged_code_context.txt", "o[1].md"}

BootFiles ==
    {NoFile,
     FileOf(<<"logs/", "*.log">>),
     FileOf(<<"# rules", "*.md", "">>),
     FileOf(<<"out.md", "!out.md">>),
     FileOf(<<"/out.md", "sub/merged_code_context.txt", "out.md/">>)}

BootGitignores ==
    {NoFile,
     FileOf(<<"node_modules/", "*.log">>),
     FileOf(<<"out.md", "docs/", "!*.md">>)}

LoadLines ==
    {"", "  ", "# note", "  #note ", "logs/", " logs/\t", "*.log",
     "!keep.log", "  !  logs/keep/ ", "!", "a#b", "! #x"}

LoadFiles == {NoFile} \cup {FileOf(l) : l \in SeqsUpTo(LoadLines, MaxLines)}

(***************************************************************************)
(* State.                                                                  *)
(***************************************************************************)
VARIABLES
    q_path,          \* the matcher's argument rel_path
    q_rules,         \* the matcher's argument rules
    q_is_directory,  \* the matcher's argument is_directory
    q_ret,           \* what the matcher returned: [fn, value], fn = "none" before the call
    root_kind,       \* what root_dir is on disk: "dir", "missing" or "file"
    fs,              \* the tree below root_dir
    ignore_rules,    \* self.ignore_rules
    extensions,      \* self.extensions
    pc,              \* where scan is: "idle", "walk", "prune", "files", "done"
    walk_stack,      \* os.walk: the directories still to walk, a frame of siblings
                     \* per level, innermost first
    root_path,       \* the directory os.walk last yielded, relative to root_dir
    dirs,            \* the dirs list of that directory (names)
    files,           \* the entries of its files list not yet looped over (names)
    scandir_calls,   \* every directory os.walk has tried to list
    visited,         \* every file the loop body has started on
    opened,          \* every file _is_binary_file has opened
    fully_read,      \* every file read_text has read to the end
    emitted,         \* the FileContext records yielded: [rel_path, content]
    warnings,        \* the files named in a "[Warning] Skipping" line
    error,           \* the error reported to the caller, "none" when there is none
    scan_call,       \* which call of scan on the scanner this is: 0 (none), 1 or 2
    first_emitted,   \* the records the first call yielded, once it is over
    cli_pc,          \* where main is: "idle", "start", "bootstrap", "load", "scan",
                     \* "merge", "exit0" (returned), "exit1" (sys.exit(1))
    output_file_name,\* args.output
    mergeignore,     \* the file root_dir/.mergeignore: [exists, lines]
    gitignore,       \* the file root_dir/.gitignore: [exists, lines]
    choice,          \* the user's answer to "Copy rules to .mergeignore? (Y/n)"
    output_file,     \* the file root_dir/output_file_name: [exists, lines]
    files_to_merge   \* the files main has read: [rel_path, content]

matchVars == <<q_path, q_rules, q_is_directory, q_ret>>
inputVars == <<root_kind, fs, ignore_rules, extensions>>
walkVars  == <<walk_stack, root_path, dirs, files>>
traceVars == <<scandir_calls, visited, opened, fully_read, emitted, warnings, error>>
callVars  == <<scan_call, first_emitted>>
scanVars  == <<inputVars, pc, walkVars, traceVars, callVars>>
cliVars   == <<cli_pc, output_file_name, mergeignore, gitignore, choice,
               output_file, files_to_merge>>
vars == <<matchVars, scanVars, cliVars>>

MatchIdle ==
    /\ q_path = ""
    /\ q_rules = <<>>
    /\ q_is_directory = FALSE
    /\ q_ret = [fn |-> "none", value |-> FALSE]

ScanIdle ==
    /\ root_kind = "dir"
    /\ fs = BaseTree
    /\ ignore_rules = <<>>
    /\ extensions = {}
    /\ pc = "idle"
    /\ walk_stack = <<>>
    /\ root_path = ""
    /\ dirs = {}
    /\ files = {}
    /\ scandir_calls = {}
    /\ visited = {}
    /\ opened = {}
    /\ fully_read = {}
    /\ emitted = {}
    /\ warnings = {}
    /\ error = "none"
    /\ scan_call = 0
    /\ first_emitted = {}

CliIdle ==
    /\ cli_pc = "idle"
    /\ output_file_name = ""
    /\ mergeignore = NoFile
    /\ gitignore = NoFile
    /\ choice = ""
    /\ output_file = NoFile
    /\ files_to_merge = {}

(***************************************************************************)
(* SpecMatch: one call of each matcher on arguments drawn from the input   *)
(* sets.                                                                   *)
(***************************************************************************)
InitMatch ==
    /\ q_path \in MatchPaths
    /\ q_rules \in SeqsUpTo(MatchRules, MaxRules)
    /\ q_is_directory \in BOOLEAN
    /\ q_ret = [fn |-> "none", value |-> FALSE]
    /\ ScanIdle
    /\ CliIdle

CallCliIsPathIgnored ==
    /\ q_ret.fn = "none"
    /\ q_ret' = [fn |-> "cli", value |-> cli_is_path_ignored(q_path, q_rules)]
    /\ UNCHANGED <<q_path, q_rules, q_is_directory, scanVars, cliVars>>

CallIsPathIgnored ==
    /\ q_ret.fn = "none"
    /\ q_ret' = [fn |-> "core",
                 value |-> is_path_ignored(q_path, q_rules, q_is_directory)]
    /\ UNCHANGED <<q_path, q_rules, q_is_directory, scanVars, cliVars>>

NextMatch == CallCliIsPathIgnored \/ CallIsPathIgnored

SpecMatch == InitMatch /\ [][NextMatch]_vars

(***************************************************************************)
(* Spec: ProjectScanner(root_dir, ignore_rules, extensions).scan(), driven *)
(* to exhaustion by its caller.  os.walk lists a directory, scan prunes    *)
(* its dirs list and loops over its files, then os.walk descends into the  *)
(* directories left in dirs.  The order in which a directory's entries     *)
(* are listed is the file system's: any order.                             *)
(***************************************************************************)
Init ==
    /\ MatchIdle
    /\ CliIdle
    /\ root_kind \in RootKinds
    /\ fs \in ScanTrees
    /\ ignore_rules \in SeqsUpTo(ScanRules, MaxScanRules)
    /\ extensions \in ExtensionSets
    /\ pc = "walk"
    /\ walk_stack = <<{""}>>
    /\ root_path = ""
    /\ dirs = {}
    /\ files = {}
    /\ scandir_calls = {}
    /\ visited = {}
    /\ opened = {}
    /\ fully_read = {}
    /\ emitted = {}
    /\ warnings = {}
    /\ error = "none"
    /\ scan_call = 1
    /\ first_emitted = {}

\* Whether os.scandir(dir) works: the root must be a directory, and the
\* directory listable.
listable(dir) == root_kind = "dir" /\ dir \notin fs.unlistable

\* The directories still to walk once d, of the innermost frame, is taken: a
\* frame with nothing left in it is dropped.
without_dir(stack, d) ==
    IF Head(stack) = {d} THEN Tail(stack)
    ELSE <<Head(stack) \ {d}>> \o Tail(stack)

\* os.walk lists the next directory and yields (root, dirs, files).
WalkDir ==
    /\ pc = "walk"
    /\ walk_stack # <<>>
    /\ \E d \in Head(walk_stack) :
         /\ listable(d)
         /\ walk_stack' = without_dir(walk_stack, d)
         /\ scandir_calls' = scandir_calls \cup {d}
         /\ root_path' = d
         /\ dirs' = ChildDirs(fs, d)
         /\ files' = ChildFiles(fs, d)
    /\ pc' = "prune"
    /\ UNCHANGED <<matchVars, cliVars, callVars, inputVars, visited, opened, fully_read,
                   emitted, warnings, error>>

\* A walk that a directory it cannot list brings to its end.
scandir_error_ends_walk(stack, d) == <<>>

\* os.walk on an OSError of os.scandir(d), called without onerror: the
\* directory is dropped and the walk goes on with the others.
scandir_error(stack, d) == without_dir(stack, d)

\* os.scandir raises OSError: os.walk, called without onerror, drops the
\* directory and goes on.
WalkDirError ==
    /\ pc = "walk"
    /\ walk_stack # <<>>
    /\ \E d \in Head(walk_stack) :
         /\ ~listable(d)
         /\ walk_stack' = scandir_error(walk_stack, d)
         /\ scandir_calls' = scandir_calls \cup {d}
    /\ UNCHANGED <<matchVars, cliVars, callVars, inputVars, pc, root_path, dirs, files,
                   visited, opened, fully_read, emitted, warnings, error>>

\* os.walk is exhausted: the for loop of scan ends and scan returns.
WalkEnd ==
    /\ pc = "walk"
    /\ walk_stack = <<>>
    /\ pc' = "done"
    /\ UNCHANGED <<matchVars, cliVars, callVars, inputVars, walkVars, traceVars>>

\* 1. Prune Directories: every d of dirs that is ignored as a directory is
\* removed from dirs.
PruneDirs ==
    /\ pc = "prune"
    /\ dirs' = pruned_dirs(root_path, dirs, ignore_rules)
    /\ pc' = "files"
    /\ UNCHANGED <<matchVars, cliVars, callVars, inputVars, walk_stack, root_path, files, traceVars>>

\* 2. Process Files: one turn of the loop over files.  The file is checked
\* against the rules (A) and the extension set (B), then sniffed (C), then
\* read as UTF-8 text and yielded; the first gate that rejects it ends the
\* turn.  A UnicodeDecodeError is skipped silently, any other exception of
\* the read with a warning.
ProcessFile ==
    /\ pc = "files"
    /\ \E f \in files :
         LET path   == PathJoin(root_path, f)
             file   == fs.file[path]
             sniffs == reaches_sniff(path, ignore_rules, extensions)
             reads  == sniffs /\ ~is_binary_file(file)
         IN  /\ files' = files \ {f}
             /\ visited' = visited \cup {path}
             /\ opened' = IF sniffs /\ file.access # "denied"
                          THEN opened \cup {path} ELSE opened
             /\ fully_read' = IF reads /\ file.access = "ok"
                              THEN fully_read \cup {path} ELSE fully_read
             /\ emitted' = IF reads /\ file.access = "ok" /\ file.utf8
                           THEN emitted \cup {[rel_path |-> path, content |-> file.text]}
                           ELSE emitted
             /\ warnings' = IF reads /\ file.access # "ok"
                            THEN warnings \cup {path} ELSE warnings
    /\ UNCHANGED <<matchVars, cliVars, callVars, inputVars, pc, walk_stack, root_path, dirs,
                   scandir_calls, error>>

\* The files loop is over: os.walk goes on with the directories left in dirs.
EndFiles ==
    /\ pc = "files"
    /\ files = {}
    /\ walk_stack' = IF dirs = {} THEN walk_stack
                     ELSE <<{PathJoin(root_path, d) : d \in dirs}>> \o walk_stack
    /\ pc' = "walk"
    /\ UNCHANGED <<matchVars, cliVars, callVars, inputVars, root_path, dirs, files, traceVars>>

\* A walk that goes on from what an earlier walk left to do.
os_walk_resumed(left_over) == left_over

\* os.walk(self.root_dir): the directories a new walk has to do.  Every call
\* of scan makes a new walk, which starts at the root whatever an earlier
\* walk has left.
os_walk(left_over) == <<{""}>>

\* scan is called a second time on the same scanner, over the same tree: the
\* caller keeps the records of the first call, and the second call starts
\* with its own walk, loop variables and (empty) output.
ScanAgain ==
    /\ pc = "done"
    /\ scan_call = 1
    /\ scan_call' = 2
    /\ first_emitted' = emitted
    /\ pc' = "walk"
    /\ walk_stack' = os_walk(walk_stack)
    /\ root_path' = ""
    /\ dirs' = {}
    /\ files' = {}
    /\ scandir_calls' = {}
    /\ visited' = {}
    /\ opened' = {}
    /\ fully_read' = {}
    /\ emitted' = {}
    /\ warnings' = {}
    /\ UNCHANGED <<matchVars, cliVars, inputVars, error>>

Next ==
    \/ WalkDir
    \/ WalkDirError
    \/ WalkEnd
    \/ PruneDirs
    \/ ProcessFile
    \/ EndFiles
    \/ ScanAgain

Spec == Init /\ [][Next]_vars

(***************************************************************************)
(* SpecCli: one run of main (flatcode.cli) on a root, an output filename,  *)
(* an extension list and the files found on disk.                          *)
(***************************************************************************)
InitCli ==
    /\ MatchIdle
    /\ root_kind \in RootKinds
    /\ fs \in CliTrees
    /\ ignore_rules = <<>>
    /\ extensions \in CliExtensionSets
    /\ pc = "idle"
    /\ walk_stack = <<>>
    /\ root_path = ""
    /\ dirs = {}
    /\ files = {}
    /\ scandir_calls = {}
    /\ visited = {}
    /\ opened = {}
    /\ fully_read = {}
    /\ emitted = {}
    /\ warnings = {}
    /\ error = "none"
    /\ scan_call = 0
    /\ first_emitted = {}
    /\ cli_pc = "start"
    /\ output_file_name \in OutputNames
    /\ mergeignore \in RuleFiles
    /\ gitignore \in GitignoreFiles
    /\ choice \in Answers
    /\ output_file \in OutputFiles
    /\ files_to_merge = {}

\* 1. Parse Arguments: a root that is not a directory ends the run with an
\* error and exit status 1.
MainCheckRoot ==
    /\ cli_pc = "start"
    /\ IF root_kind = "dir"
       THEN cli_pc' = "bootstrap" /\ error' = error
       ELSE cli_pc' = "exit1" /\ error' = "not a valid directory"
    /\ UNCHANGED <<matchVars, callVars, inputVars, pc, walkVars, scandir_calls, visited, opened,
                   fully_read, emitted, warnings, output_file_name, mergeignore,
                   gitignore, choice, output_file, files_to_merge>>

\* 2. bootstrap_mergeignore(root_dir, output_file_name)
MainBootstrap ==
    /\ cli_pc = "bootstrap"
    /\ mergeignore' = bootstrap_mergeignore(mergeignore, gitignore, choice, output_file_name)
    /\ cli_pc' = "load"
    /\ UNCHANGED <<matchVars, scanVars, output_file_name, gitignore, choice,
                   output_file, files_to_merge>>

\* 2. load_ignore_rules(mergeignore_file) and the rule for the output file.
MainLoadRules ==
    /\ cli_pc = "load"
    /\ ignore_rules' = compiled_rules(mergeignore, output_file_name)
    /\ cli_pc' = "scan"
    /\ UNCHANGED <<matchVars, callVars, root_kind, fs, extensions, pc, walkVars,
                   traceVars,
                   output_file_name, mergeignore, gitignore, choice, output_file,
                   files_to_merge>>

\* 3. Phase 1: Scan and Estimate, the loop over root_dir.rglob("*").
MainScan ==
    /\ cli_pc = "scan"
    /\ files_to_merge' =
         scanned_files(rglob_files(fs, mergeignore, gitignore, output_file, output_file_name),
                       ignore_rules, extensions)
    /\ cli_pc' = "merge"
    /\ UNCHANGED <<matchVars, scanVars, output_file_name, mergeignore, gitignore,
                   choice, output_file>>

\* 4. and 5.: with nothing to merge main returns; else it writes the
\* snapshot to root_dir/output_file_name.
MainMerge ==
    /\ cli_pc = "merge"
    /\ output_file' = IF files_to_merge = {} THEN output_file
                      ELSE FileOf(<<"# --- flatcode: Project Context Snapshot --- #">>)
    /\ cli_pc' = "exit0"
    /\ UNCHANGED <<matchVars, scanVars, output_file_name, mergeignore, gitignore,
                   choice, files_to_merge>>

NextCli ==
    \/ MainCheckRoot
    \/ MainBootstrap
    \/ MainLoadRules
    \/ MainScan
    \/ MainMerge

SpecCli == InitCli /\ [][NextCli]_vars

(***************************************************************************)
(* SpecLoad: one call of load_ignore_rules on a rule file.  cli_pc is      *)
(* "call" before the call and "returned" after it; ignore_rules receives   *)
(* the list returned.                                                      *)
(***************************************************************************)
InitLoad ==
    /\ MatchIdle
    /\ ScanIdle
    /\ cli_pc = "call"
    /\ output_file_name = ""
    /\ mergeignore \in LoadFiles
    /\ gitignore = NoFile
    /\ choice = ""
    /\ output_file = NoFile
    /\ files_to_merge = {}

CallLoadIgnoreRules ==
    /\ cli_pc = "call"
    /\ ignore_rules' = load_ignore_rules(mergeignore)
    /\ cli_pc' = "returned"
    /\ UNCHANGED <<matchVars, callVars, root_kind, fs, extensions, pc, walkVars,
                   traceVars,
                   output_file_name, mergeignore, gitignore, choice, output_file,
                   files_to_merge>>

NextLoad == CallLoadIgnoreRules

SpecLoad == InitLoad /\ [][NextLoad]_vars

(***************************************************************************)
(* SpecBoot: calls of flatcode.core.ignore.bootstrap_mergeignore, one      *)
(* after the other on the same root, each with an output filename.  cli_pc *)
(* is "call" before the first call and "returned" after each one.          *)
(***************************************************************************)
InitBoot ==
    /\ MatchIdle
    /\ ScanIdle
    /\ cli_pc = "call"
    /\ output_file_name = ""
    /\ mergeignore \in BootFiles
    /\ gitignore \in BootGitignores
    /\ choice \in Answers
    /\ output_file = NoFile
    /\ files_to_merge = {}

CallBootstrapMergeignore ==
    /\ Len(mergeignore.lines) <= MaxBootLines
    /\ \E output_filename \in BootOutputNames :
         /\ output_file_name' = output_filename
         /\ mergeignore' = core_bootstrap_mergeignore(mergeignore, gitignore, choice,
                                                      output_filename)
    /\ cli_pc' = "returned"
    /\ UNCHANGED <<matchVars, scanVars, gitignore, choice, output_file, files_to_merge>>

NextBoot == CallBootstrapMergeignore

SpecBoot == InitBoot /\ [][NextBoot]_vars

(***************************************************************************)
(* Properties of the matcher, checked under SpecMatch.                     *)
(***************************************************************************)

\* The string a directory rule is compared with in the call that returned.
QueryDirCandidate ==
    IF q_ret.fn = "core" /\ q_is_directory THEN q_path \o "/" ELSE q_path

\* The positions of the rules of the call that match its path.
QueryMatches ==
    {i \in 1..Len(q_rules) :
        rule_matches(QueryDirCandidate, q_path, q_rules[i].pattern)}

QueryLastMatch == CHOOSE i \in QueryMatches : \A k \in QueryMatches : k <= i

\* C1: last-match-wins.  Whatever the rule list and the path, is_path_ignored
\* returns false when no rule matches the path, and otherwise returns true
\* exactly when the last rule in list order that matches is an exclusion
\* rule; the matching rules before it never decide the verdict.
C1_LastMatchWins ==
    q_ret.fn # "none" =>
        q_ret.value = IF QueryMatches = {} THEN FALSE
                      ELSE ~q_rules[QueryLastMatch].is_inclusion

\* C1's case: a call in which an exclusion rule matches and a later, last
\* matching rule is an inclusion rule, and one the other way round in kind.
C1_Witness ==
    /\ q_ret.fn = "cli"
    /\ q_path = "src/important.log"
    /\ Len(q_rules) = 3
    /\ QueryMatches = {1, 3}
    /\ ~q_rules[1].is_inclusion
    /\ q_rules[3].is_inclusion
    /\ q_ret.value = FALSE

\* The call that returned was made with the single exclusion rule (pattern).
SingleExclusion ==
    /\ q_ret.fn # "none"
    /\ Len(q_rules) = 1
    /\ ~q_rules[1].is_inclusion

\* pattern without its last character.
ChopLast(pattern) == SubSeq(pattern, 1, Len(pattern) - 1)

\* C4: directory-rule matching.  A rule whose pattern ends with '/' matches a
\* directory candidate whose relative path is the pattern without its slash,
\* and every candidate below that directory, and nothing else: 'venv/'
\* matches the directory venv and venv/lib/python3.9, and neither a regular
\* file named venv nor venvx/a.
C4_DirectoryRule ==
    (SingleExclusion /\ endswith(q_rules[1].pattern, "/")) =>
        LET dir == ChopLast(q_rules[1].pattern)
            as_directory == q_ret.fn = "core" /\ q_is_directory
        IN  q_ret.value = ((as_directory /\ q_path = dir) \/ dir \in Ancestors(q_path))

\* C4's case: 'venv/' has been tried on the directory entry venv.
C4_Witness ==
    /\ SingleExclusion
    /\ q_rules[1].pattern = "venv/"
    /\ q_ret.fn = "core"
    /\ q_is_directory
    /\ q_path = "venv"
    /\ q_ret.value = TRUE

\* No glob metacharacter occurs in s.
IsLiteral(s) == ~InStr("*", s) /\ ~InStr("?", s) /\ ~InStr("[", s)

\* C5: basename matching.  A rule whose pattern does not end with '/' matches
\* when the glob matches the full relative path or the final segment alone:
\* a literal pattern matches the path equal to it and every path whose name
\* is equal to it, and '*' followed by a literal matches every path that ends
\* with the literal, at any depth ('*.log' matches app.log, src/app.log and
\* deep/dir/app.log, and not src/main.py).
C5_BasenameMatching ==
    (SingleExclusion /\ ~endswith(q_rules[1].pattern, "/")) =>
        LET pattern == q_rules[1].pattern IN
        /\ IsLiteral(pattern) =>
             q_ret.value = (q_path = pattern \/ PathName(q_path) = pattern)
        /\ (Char(pattern, 1) = "*" /\ IsLiteral(Drop(pattern, 1))) =>
             q_ret.value = endswith(q_path, Drop(pattern, 1))

\* C5's case: '*.log' has been tried on a file two directories down.
C5_Witness ==
    /\ SingleExclusion
    /\ q_rules[1].pattern = "*.log"
    /\ q_path = "deep/dir/app.log"
    /\ q_ret.value = TRUE

(***************************************************************************)
(* Properties of ProjectScanner.scan, checked under Spec.                  *)
(***************************************************************************)
EmittedPaths == {r.rel_path : r \in emitted}

\* The directories of the tree that are ignored when evaluated as a directory.
IgnoredDirs == {d \in fs.dirs : is_path_ignored(d, ignore_rules, TRUE)}

\* The root and every directory above f can be listed.
UnderListableDirs(f) ==
    /\ root_kind = "dir"
    /\ \A a \in Ancestors(f) \cup {""} : a \notin fs.unlistable

\* No directory above f is in the set ignored_dirs.
UnderKeptDirs(f, ignored_dirs) == \A a \in Ancestors(f) : a \notin ignored_dirs

\* The first SniffBytes bytes of the file hold no NUL.
NoNulInPrefix(file) == file.first_nul < 0 \/ file.first_nul >= SniffBytes

\* The file can be opened and read, holds no NUL in its first SniffBytes
\* bytes and decodes as UTF-8.
ReadableText(file) ==
    /\ file.access = "ok"
    /\ NoNulInPrefix(file)
    /\ file.utf8

\* C2: directory pruning.  For every subdirectory that is ignored when
\* evaluated as a directory, os.walk never lists that directory or one below
\* it, the files loop never starts on, opens or reads a file below it, and no
\* record is emitted for a file below it, however deep; and when the scan is
\* over, the files loop has started on every file whose directories can be
\* listed and are not pruned.
C2_DirectoryPruning ==
    LET ignored_dirs == IgnoredDirs IN
    /\ \A d \in ignored_dirs :
         /\ \A x \in scandir_calls : ~Below(x, d)
         /\ \A f \in visited \cup opened \cup fully_read \cup EmittedPaths : ~Below(f, d)
    /\ pc = "done" =>
         \A f \in DOMAIN fs.file :
            (UnderListableDirs(f) /\ UnderKeptDirs(f, ignored_dirs)) => f \in visited

\* C2's case: the scan is over, node_modules was pruned with a file three
\* levels below it, and the sibling a.py was emitted.
C2_Witness ==
    /\ pc = "done"
    /\ "node_modules" \in IgnoredDirs
    /\ "node_modules/deep/nested/index.js" \in DOMAIN fs.file
    /\ "node_modules" \notin scandir_calls
    /\ "a.py" \in EmittedPaths

\* C3: a later inclusion rule resurrects a file excluded by an earlier broad
\* pattern.  With the rules logs/ (exclusion) then logs/important.log
\* (inclusion), the text files logs/important.log and logs/app.log and an
\* extension set that admits both, the finished scan has emitted
\* logs/important.log and has not emitted logs/app.log.
C3_InclusionResurrects ==
    ( /\ pc = "done"
      /\ root_kind = "dir"
      /\ fs = BaseTree
      /\ extensions = {"*"}
      /\ ignore_rules = <<Rule("logs/", FALSE), Rule("logs/important.log", TRUE)>> )
    => /\ "logs/important.log" \in EmittedPaths
       /\ "logs/app.log" \notin EmittedPaths

\* The scan is over, of an existing root with no rule and match_all.
ScannedWithoutRules ==
    /\ pc = "done"
    /\ root_kind = "dir"
    /\ ignore_rules = <<>>
    /\ "*" \in extensions

\* C6 as stated: default-not-ignored.  With an empty rule list and '*' in the
\* extension set, the finished scan has emitted every file of the tree whose
\* first 1024 bytes hold no NUL and whose content decodes as UTF-8.
C6_DefaultNotIgnored ==
    ScannedWithoutRules =>
        \A f \in DOMAIN fs.file :
            (NoNulInPrefix(fs.file[f]) /\ fs.file[f].utf8) => f \in EmittedPaths

\* C6, amended: with an empty rule list and '*' in the extension set, the
\* finished scan has emitted every file of the tree that can be opened and
\* read, below directories that can all be listed, whose first 1024 bytes
\* hold no NUL and whose content decodes as UTF-8.
C6_DefaultNotIgnoredReadable ==
    ScannedWithoutRules =>
        \A f \in DOMAIN fs.file :
            (UnderListableDirs(f) /\ ReadableText(fs.file[f])) => f \in EmittedPaths

\* C6's case: a scan without rules has emitted a file three directories down
\* and a file whose first NUL lies right after the sniffed prefix.
C6_Witness ==
    /\ ScannedWithoutRules
    /\ fs.file["logs/important.log"].first_nul = SniffBytes
    /\ "logs/important.log" \in EmittedPaths
    /\ "node_modules/deep/nested/index.js" \in EmittedPaths

\* C7: extension filtering.  Without '*' in the extension set, a file is
\* emitted only if its suffix or its exact name is in the set (with {".py"},
\* a.py is emitted and a.md is not); with '*' in the set the extension gate
\* rejects nothing: every file the walk reaches that passes the rule check,
\* the sniff and the decode is emitted (a.py and a.md both).
C7_ExtensionFiltering ==
    /\ "*" \notin extensions =>
         \A p \in EmittedPaths : PathSuffix(p) \in extensions \/ PathName(p) \in extensions
    /\ (pc = "done" /\ "*" \in extensions) =>
         LET ignored_dirs == IgnoredDirs IN
         \A f \in DOMAIN fs.file :
            ( /\ UnderListableDirs(f)
              /\ ReadableText(fs.file[f])
              /\ UnderKeptDirs(f, ignored_dirs)
              /\ ~is_path_ignored(f, ignore_rules, FALSE) ) => f \in EmittedPaths
    /\ (pc = "done" /\ root_kind = "dir" /\ fs = BaseTree /\ ignore_rules = <<>>) =>
         /\ extensions = {".py"} => ("a.py" \in EmittedPaths /\ "a.md" \notin EmittedPaths)
         /\ extensions = {"*"} => ("a.py" \in EmittedPaths /\ "a.md" \in EmittedPaths)

\* C7's case: a finished scan with {".py"} that met a.md, and emitted a.py only.
C7_Witness ==
    /\ pc = "done"
    /\ extensions = {".py"}
    /\ "a.md" \in visited
    /\ EmittedPaths = {"a.py"}

\* C8: binary rejection.  A file with a NUL in its first 1024 bytes, or that
\* cannot be opened for the sniff, is never emitted, whatever the rules (an
\* inclusion rule that names it included) and the extension set ('*'
\* included); nothing is raised to the caller, and the scan goes on: when it
\* is over, every file that passes all the gates in a directory the walk
\* reaches has been emitted.
C8_BinaryRejection ==
    /\ \A p \in EmittedPaths :
         /\ NoNulInPrefix(fs.file[p])
         /\ fs.file[p].access # "denied"
    /\ error = "none"
    /\ pc = "done" =>
         LET ignored_dirs == IgnoredDirs IN
         \A f \in DOMAIN fs.file :
            ( /\ UnderListableDirs(f)
              /\ ReadableText(fs.file[f])
              /\ UnderKeptDirs(f, ignored_dirs)
              /\ ~is_path_ignored(f, ignore_rules, FALSE)
              /\ extension_ok(f, extensions) ) => f \in EmittedPaths

\* C8's case: the scan is over; a UTF-8 file with a NUL in its prefix, named
\* by an inclusion rule and admitted by '*', was opened and not emitted, and
\* another file was emitted.
C8_Witness ==
    /\ pc = "done"
    /\ extensions = {"*"}
    /\ ignore_rules = <<Rule("logs/important.log", TRUE)>>
    /\ "logs/important.log" \in opened
    /\ ~NoNulInPrefix(fs.file["logs/important.log"])
    /\ fs.file["logs/important.log"].utf8
    /\ "logs/important.log" \notin EmittedPaths
    /\ "logs/app.log" \in EmittedPaths

\* C9: fail-fast on an invalid root.  A scan whose root does not exist or is
\* not a directory ends with a precondition error reported to the caller and
\* with no record emitted.
C9_FailFastInvalidRoot ==
    (pc = "done" /\ root_kind # "dir") =>
        /\ error # "none"
        /\ emitted = {}

(***************************************************************************)
(* Properties of main, checked under SpecCli.                              *)
(***************************************************************************)

\* C10: the tool's own output artifact is never re-included.  Once main has
\* compiled its rules, whatever the rule file holds, the file
\* root_dir/output_file_name is ignored by them, and it is never among the
\* files main merges.
C10_OutputNeverReincluded ==
    /\ cli_pc \in {"scan", "merge", "exit0"} =>
         cli_is_path_ignored(output_file_name, ignore_rules)
    /\ \A r \in files_to_merge : r.rel_path # output_file_name

(***************************************************************************)
(* Properties of load_ignore_rules, checked under SpecLoad.                *)
(***************************************************************************)

\* t is s without its leading and trailing white space: s is a run of white
\* space, then t, then a run of white space, and t neither starts nor ends
\* with white space.
IsTrimOf(t, s) ==
    \E a \in 1..(Len(s) + 1), b \in 0..Len(s) :
        /\ t = SubSeq(s, a, b)
        /\ \A i \in 1..(a - 1) : IsSpace(Char(s, i))
        /\ \A i \in (b + 1)..Len(s) : IsSpace(Char(s, i))
        /\ (t # "" => ~IsSpace(Char(t, 1)) /\ ~IsSpace(Char(t, Len(t))))

Trimmed(s) == CHOOSE t \in {SubSeq(s, a, b) : a \in 1..(Len(s) + 1), b \in 0..Len(s)} :
                  IsTrimOf(t, s)

\* The lines of a file that carry a rule: non-empty after trimming and not
\* beginning with '#'.
RuleLines(lines) ==
    {i \in 1..Len(lines) : Trimmed(lines[i]) # "" /\ Char(Trimmed(lines[i]), 1) # "#"}

\* The k-th rule line, in file order.
NthRuleLine(lines, k) ==
    CHOOSE i \in RuleLines(lines) : Cardinality({j \in RuleLines(lines) : j <= i}) = k

\* The rule a rule line stands for.
RuleOfLine(raw_line) ==
    LET t == Trimmed(raw_line) IN
    IF Char(t, 1) = "!" THEN Rule(Trimmed(Drop(t, 1)), TRUE) ELSE Rule(t, FALSE)

\* C11: rule parsing.  load_ignore_rules returns one rule per line that is
\* non-empty after trimming and does not begin with '#', in file order: a
\* line beginning with '!' gives (trimmed remainder, inclusion), any other
\* line (trimmed line, exclusion), a trailing '/' staying in the pattern; a
\* missing rule file gives the empty list.
C11_RuleParsing ==
    cli_pc = "returned" =>
        IF ~mergeignore.exists THEN ignore_rules = <<>>
        ELSE /\ Len(ignore_rules) = Cardinality(RuleLines(mergeignore.lines))
             /\ \A k \in 1..Len(ignore_rules) :
                    LET raw == mergeignore.lines[NthRuleLine(mergeignore.lines, k)] IN
                    /\ ignore_rules[k] = RuleOfLine(raw)
                    /\ endswith(ignore_rules[k].pattern, "/") <=> endswith(Trimmed(raw), "/")

\* C11's case: a file with a comment and an indented inclusion line with a
\* trailing '/' has been parsed into that one inclusion rule.
C11_Witness ==
    /\ cli_pc = "returned"
    /\ mergeignore = FileOf(<<"  #note ", "  !  logs/keep/ ">>)
    /\ ignore_rules = <<Rule("logs/keep/", TRUE)>>

(***************************************************************************)
(* Properties of repeated and faulty scans, checked under Spec.            *)
(***************************************************************************)

\* C12: scan idempotence.  A second scan over the unchanged tree, with the
\* same rules and extension set, ends with the same set of (relative path,
\* content) records as the first.
C12_ScanIdempotent ==
    (pc = "done" /\ scan_call = 2) => emitted = first_emitted

\* C12's case: both scans are over, under rules and with a pruned directory,
\* and the first one emitted records.
C12_Witness ==
    /\ pc = "done"
    /\ scan_call = 2
    /\ ignore_rules # <<>>
    /\ IgnoredDirs # {}
    /\ first_emitted # {}
    /\ emitted # {}

\* The file passes the four gates: not ignored, of a listed extension, and
\* readable text.
Eligible(f) ==
    /\ ~is_path_ignored(f, ignore_rules, FALSE)
    /\ extension_ok(f, extensions)
    /\ ReadableText(fs.file[f])

\* C13: per-entry errors are never fatal.  Nothing is raised to the caller;
\* a file that fails the sniff, the decode or the read is not emitted and
\* nothing below a directory that cannot be listed is visited; every
\* eligible file the loop has visited is emitted, whatever was skipped
\* before it; and when the scan is over the loop has visited every file
\* below listable directories that are not pruned, whatever was skipped.
C13_EntryErrorsNotFatal ==
    /\ error = "none"
    /\ \A p \in EmittedPaths : ReadableText(fs.file[p])
    /\ \A f \in visited : UnderListableDirs(f) /\ (Eligible(f) => f \in EmittedPaths)
    /\ pc = "done" =>
         LET ignored_dirs == IgnoredDirs IN
         \A f \in DOMAIN fs.file :
            (UnderListableDirs(f) /\ UnderKeptDirs(f, ignored_dirs)) => f \in visited

\* C13's case: the scan is over; the read of a.md raised (the file was there
\* for the sniff and gone for the read) and was skipped with a warning, and
\* the files of the same directory and of the directories below are emitted.
C13_Witness ==
    /\ pc = "done"
    /\ fs.file["a.md"].access = "vanishes"
    /\ "a.md" \in opened
    /\ "a.md" \in warnings
    /\ "a.md" \notin EmittedPaths
    /\ {"a.py", "Dockerfile", "logs/app.log"} \subseteq EmittedPaths

\* C13's other case: a directory could not be listed and the files of the
\* other directories are emitted.
C13_WitnessUnlistable ==
    /\ pc = "done"
    /\ fs.unlistable = {"logs"}
    /\ "logs" \in scandir_calls
    /\ EmittedPaths = {"a.py", "a.md", "Dockerfile", "node_modules/deep/nested/index.js"}

\* C14: gate ordering.  The rule check and the extension check come before
\* any read, the sniff before the full read, the full read and the decode
\* before the record: a file is opened only if it passed the rule and the
\* extension check, is fully read only if it was opened and the sniff found
\* no NUL, and is emitted only if it was fully read and decoded, with its
\* whole content; and all of this happens to visited files only.
C14_GateOrdering ==
    /\ opened \subseteq visited
    /\ \A f \in opened :
         /\ ~is_path_ignored(f, ignore_rules, FALSE)
         /\ extension_ok(f, extensions)
    /\ \A f \in fully_read :
         /\ f \in opened
         /\ NoNulInPrefix(fs.file[f])
    /\ \A r \in emitted :
         /\ r.rel_path \in fully_read
         /\ fs.file[r.rel_path].utf8
         /\ r.content = fs.file[r.rel_path].text
    /\ warnings \subseteq opened \ fully_read

\* C14's case: of three files of one directory, the extension check rejected
\* one, which was not opened; the sniff rejected one, which was opened and
\* not read; and one passed all the gates and was read and emitted.
C14_Witness ==
    /\ extensions = {".md", "Dockerfile"}
    /\ {"a.py", "a.md", "Dockerfile"} \subseteq visited
    /\ "a.py" \notin opened
    /\ "a.md" \in opened \ fully_read
    /\ ~NoNulInPrefix(fs.file["a.md"])
    /\ "Dockerfile" \in fully_read
    /\ "Dockerfile" \in EmittedPaths

\* What walking everything and then filtering gives: every file the walk can
\* get to that passes the per-file gates, the rule check being made on the
\* file's own relative path.
WalkAllThenFilter == {f \in DOMAIN fs.file : UnderListableDirs(f) /\ Eligible(f)}

\* C15: pruning agrees with walk-everything-then-filter.  When the scan of a
\* root directory is over, the set of files it has emitted is the set of
\* files that pass the per-file gates alone; equivalently, every file below
\* a pruned directory is one the per-file rule check rejects.
C15_PruningAgreesWithFilter ==
    (pc = "done" /\ root_kind = "dir") =>
        /\ EmittedPaths = WalkAllThenFilter
        /\ LET ignored_dirs == IgnoredDirs IN
           \A f \in DOMAIN fs.file :
              ~UnderKeptDirs(f, ignored_dirs) => is_path_ignored(f, ignore_rules, FALSE)

(***************************************************************************)
(* Properties of bootstrap_mergeignore, checked under SpecBoot.            *)
(***************************************************************************)

\* After a call, the rules of .mergeignore ignore the output filename of
\* that call.
LatestOutputIgnored ==
    cli_pc = "returned" => match_file(mergeignore.lines, output_file_name)

\* A call on an existing file whose rules ignore the output filename of the
\* call leaves the file as it is.
IgnoredOutputAddsNothing ==
    (mergeignore.exists /\ match_file(mergeignore.lines, output_file_name'))
        => mergeignore' = mergeignore

\* A call with the output filename of the call before it leaves the file as
\* it is.
RepeatedCallAddsNothing ==
    (cli_pc = "returned" /\ output_file_name' = output_file_name)
        => mergeignore' = mergeignore

\* A call on an existing file keeps the text of the file as a prefix of the
\* new text, and its lines as the first lines.
OnlyAppends ==
    mergeignore.exists =>
        /\ startswith(join(mergeignore'.lines), join(mergeignore.lines))
        /\ Len(mergeignore'.lines) >= Len(mergeignore.lines)
        /\ \A i \in 1..Len(mergeignore.lines) : mergeignore'.lines[i] = mergeignore.lines[i]

\* C16: the rule-file bootstrap is append-only and idempotent.  After any
\* sequence of bootstrap_mergeignore calls the output filename of the latest
\* call is ignored by the rules in .mergeignore; a call on an existing file
\* whose rules already ignore the output filename leaves the file unchanged,
\* so that repeating a call with the same output filename adds nothing; and a
\* call that changes an existing file only appends to it.
C16_BootstrapAppendOnlyIdempotent ==
    /\ []LatestOutputIgnored
    /\ [][IgnoredOutputAddsNothing /\ RepeatedCallAddsNothing /\ OnlyAppends]_vars
====
